---- MODULE Spec2Model ----
(***************************************************************************)
(* The concurrency bridge of gphoto2-rs: the process-wide worker thread    *)
(* (src/src/thread.rs) and the Task handle (src/src/task.rs).              *)
(*                                                                         *)
(* Every Task is operated by one caller thread (wait/poll/background take  *)
(* self or &mut self), so the caller thread of task t is identified with   *)
(* t and tpc[t] is its position.  Worker threads are the threads spawned   *)
(* by ThreadManager::new; how many of them exist is part of the state.     *)
(*                                                                         *)
(* The callback bridge and the Context handles (src/src/context.rs) are    *)
(* modelled for one native context: its two callback slots, its reference  *)
(* count, and the Context handles that point to it.                        *)
(***************************************************************************)
EXTENDS Integers, Sequences, FiniteSets, TLC

\* ---- bounds of the model ------------------------------------------------
MaxTasks == 2
MaxPolls == 2
MaxCancels == 2
MaxWorkers == 2
MaxInline == 1
MaxChecks == 2
MaxEvents == 2
MaxClones == 1

Tasks == 1..MaxTasks
Workers == 1..MaxWorkers
\* the values a closure can return: T is typically a Result
Values == {"ok", "err"}
\* a poll call passes its own waker: the k-th poll of a task passes waker k
Wakers == 1..MaxPolls
\* the calls the native library makes through the progress slot
Events == {"start", "update", "stop"}
\* what a callback slot of the native context holds: 0 = no function, t = the
\* trampoline with the handler the closure of task t installed, UserHandler =
\* the trampoline with a handler installed through a Context handle
UserHandler == MaxTasks + 1

VARIABLES
  once,            \* START: Once of ensure_started: "new", "running", "done"
  THREAD_MANAGER,  \* 0 = None, w = Some(manager of worker w)
  nworkers,        \* number of worker threads spawned so far
  queue,           \* queue[w]: VecDeque of closures (task ids) of worker w
  batch,           \* batch[w]: the drained Vec the for loop iterates over
  wpc,             \* wpc[w]: position of worker w in start_thread
  cur,             \* cur[w]: closure being executed by w (0 = none)
  result,          \* result[w]: local `result` of the running closure
  token,           \* token[w]: park token of worker w (set by unpark)
  tpc,             \* tpc[t]: position of the caller thread of task t
  op,              \* op[t]: the last of wait/poll/background called on t
  task,            \* task[t]: Task.task is Some((fun, tx))
  recv_waker,      \* recv_waker[t]: Task.recv_waker is Some
  cancel,          \* cancel[t]: the AtomicBool
  waker_set,       \* waker_set[t]
  chan,            \* chan[t]: content of the bounded(1) result channel
  wk,              \* wk[t]: content of the bounded(1) waker channel
  pollRes,         \* pollRes[t]: what each poll call returned, in call order
  waitRes,         \* waitRes[t]: what try_wait returned ("none" before)
  ret,             \* ret[t]: what fun() returned ("none" before)
  sends,           \* sends[t]: number of results put into chan[t]
  woken,           \* woken[t]: the wakers of t a worker invoked, in order
  pushLog,         \* closures in the order they were pushed
  execLog,         \* <<"begin", t>> / <<"end", t>> in execution order
  ncancels,        \* number of cancel() calls made so far, on any task
  inline,          \* caller threads inside a native call made inline
  context,         \* context[t]: Task.context, opt_context_ptr of the closure
  progress_handler,\* progress_handler[t]: where the task's handler is
  slot_cancel,     \* the cancel function slot of the native context
  slot_progress,   \* the progress functions slot of the native context
  feedback,        \* feedback[t]: results of the cancel checks in t's closure
  emitted,         \* emitted[t]: progress events emitted inside t's closure
  received,        \* received[t]: the calls made on the handler of t
  handles,         \* number of counted Context handles alive
  clones,          \* number of gp_context_ref calls made
  unrefs,          \* number of gp_context_unref calls made
  dropped,         \* number of counted Context handles dropped
  early,           \* the context-bound tasks that were enqueued when the last
                   \* counted handle was dropped
  late             \* late[t]: Task.progress_handler holds a handler that was
                   \* stored after start_task had taken the field

wvars == <<queue, batch, wpc, cur, result, token>>
tvars == <<tpc, op, task, recv_waker, cancel, waker_set, chan, wk>>
hvars == <<pollRes, waitRes, ret, sends, woken, pushLog, execLog, ncancels>>
gvars == <<once, THREAD_MANAGER, nworkers, inline>>
svars == <<slot_cancel, slot_progress>>
evars == <<feedback, emitted, received>>
cvars == <<handles, clones, unrefs, dropped, early>>
xvars == <<context, progress_handler, svars, evars, cvars, late>>
vars == <<gvars, wvars, tvars, hvars, xvars>>

\* ---- helpers --------------------------------------------------------------
InSeq(x, s) == \E i \in DOMAIN s : s[i] = x
Count(x, s) == Cardinality({i \in DOMAIN s : s[i] = x})
Pos(x, s) == CHOOSE i \in DOMAIN s : s[i] = x

\* the number of entries of the logs f keeps for the tasks 1..n, and for all
RECURSIVE TotalTo(_, _)
TotalTo(f, n) == IF n = 0 THEN 0 ELSE Len(f[n]) + TotalTo(f, n - 1)
Total(f) == TotalTo(f, MaxTasks)

\* the closure of t (with its tx and recv_waker) exists somewhere
ClosureAlive(t) ==
  \/ task[t]
  \/ \E w \in Workers : InSeq(t, queue[w]) \/ InSeq(t, batch[w]) \/ cur[w] = t
\* the Task value exists (its rx and set_waker ends are alive)
TaskAlive(t) == tpc[t] \notin {"none", "ensure", "init", "dropped"}

Init ==
  /\ once = "new"
  /\ THREAD_MANAGER = 0
  /\ nworkers = 0
  /\ inline = 0
  /\ queue = [w \in Workers |-> <<>>]
  /\ batch = [w \in Workers |-> <<>>]
  /\ wpc = [w \in Workers |-> "unborn"]
  /\ cur = [w \in Workers |-> 0]
  /\ result = [w \in Workers |-> "none"]
  /\ token = [w \in Workers |-> FALSE]
  /\ tpc = [t \in Tasks |-> "none"]
  /\ op = [t \in Tasks |-> "none"]
  /\ task = [t \in Tasks |-> FALSE]
  /\ recv_waker = [t \in Tasks |-> FALSE]
  /\ cancel = [t \in Tasks |-> FALSE]
  /\ waker_set = [t \in Tasks |-> FALSE]
  /\ chan = [t \in Tasks |-> <<>>]
  /\ wk = [t \in Tasks |-> <<>>]
  /\ pollRes = [t \in Tasks |-> <<>>]
  /\ waitRes = [t \in Tasks |-> "none"]
  /\ ret = [t \in Tasks |-> "none"]
  /\ sends = [t \in Tasks |-> 0]
  /\ woken = [t \in Tasks |-> <<>>]
  /\ pushLog = <<>>
  /\ execLog = <<>>
  /\ ncancels = 0
  /\ context = [t \in Tasks |-> FALSE]
  /\ progress_handler = [t \in Tasks |-> "none"]
  /\ slot_cancel = 0
  /\ slot_progress = 0
  /\ feedback = [t \in Tasks |-> <<>>]
  /\ emitted = [t \in Tasks |-> <<>>]
  /\ received = [t \in Tasks |-> <<>>]
  /\ handles = 1
  /\ clones = 0
  /\ unrefs = 0
  /\ dropped = 0
  /\ early = {}
  /\ late = [t \in Tasks |-> FALSE]

\* ---- ThreadManager::ensure_started ---------------------------------------
\* Task::new calls ThreadManager::ensure_started
EnsureCall(t) ==
  /\ tpc[t] = "none"
  /\ tpc' = [tpc EXCEPT ![t] = "ensure"]
  /\ UNCHANGED <<gvars, wvars, hvars, op, task, recv_waker, cancel, waker_set, chan, wk>>
  /\ UNCHANGED xvars

\* ensure_started without the Once: every caller runs the initialiser
CallOnceUnguarded == TRUE

\* a check-then-initialise that is not atomic: callers that arrive before the
\* initialiser has completed run it too
CallOnceRacy == once # "done"

\* Once::call_once runs its closure for the first caller only
CallOnceRuns == once = "new"

\* Task::new that hands the closure to the worker at once
TaskNewEager(t) ==
  /\ tpc' = [tpc EXCEPT ![t] = "idle"]
  /\ task' = [task EXCEPT ![t] = FALSE]
  /\ recv_waker' = [recv_waker EXCEPT ![t] = FALSE]
  /\ cancel' = [cancel EXCEPT ![t] = FALSE]
  /\ waker_set' = [waker_set EXCEPT ![t] = FALSE]
  /\ context' = [context EXCEPT ![t] = FALSE]
  /\ progress_handler' = [progress_handler EXCEPT ![t] = "none"]
  /\ late' = [late EXCEPT ![t] = FALSE]
  /\ queue' = [queue EXCEPT ![IF THREAD_MANAGER = 0 THEN nworkers + 1 ELSE THREAD_MANAGER]
                             = Append(@, t)]
  /\ pushLog' = Append(pushLog, t)
  /\ UNCHANGED <<op, chan, wk>>

\* the fields Task::new builds once ensure_started has returned
TaskNew(t) ==
  /\ tpc' = [tpc EXCEPT ![t] = "idle"]
  /\ task' = [task EXCEPT ![t] = TRUE]
  /\ recv_waker' = [recv_waker EXCEPT ![t] = TRUE]
  /\ cancel' = [cancel EXCEPT ![t] = FALSE]
  /\ waker_set' = [waker_set EXCEPT ![t] = FALSE]
  /\ context' = [context EXCEPT ![t] = FALSE]
  /\ progress_handler' = [progress_handler EXCEPT ![t] = "none"]
  /\ late' = [late EXCEPT ![t] = FALSE]
  /\ UNCHANGED <<op, chan, wk, queue, pushLog>>

\* the first caller of call_once starts running the initialiser
CallOnceEnter(t) ==
  /\ tpc[t] = "ensure"
  /\ CallOnceRuns
  /\ once' = "running"
  /\ tpc' = [tpc EXCEPT ![t] = "init"]
  /\ UNCHANGED <<THREAD_MANAGER, nworkers, inline, wvars, hvars,
                 op, task, recv_waker, cancel, waker_set, chan, wk>>
  /\ UNCHANGED xvars

\* *THREAD_MANAGER.write() = Some(ThreadManager::new()): a queue is made, a
\* worker thread is spawned on it, the manager is stored; call_once completes
\* and Task::new goes on to build the Task.  The write lock is not granted
\* while a caller holds the read lock inside start_task.
ManagerInit(t) ==
  /\ tpc[t] = "init"
  /\ nworkers < MaxWorkers
  /\ \A u \in Tasks : tpc[u] # "unpark"
  /\ nworkers' = nworkers + 1
  /\ THREAD_MANAGER' = nworkers + 1
  /\ once' = "done"
  /\ wpc' = [wpc EXCEPT ![nworkers + 1] = "drain"]
  /\ TaskNew(t)
  /\ UNCHANGED <<inline, batch, cur, result, token,
                 pollRes, waitRes, ret, sends, woken, execLog, ncancels>>
  /\ UNCHANGED <<svars, evars, cvars>>

\* a call_once that does not make the other callers wait for the initialiser
\* another caller is still running
CallOnceNoWait(t) ==
  /\ tpc[t] = "ensure"
  /\ ~CallOnceRuns
  /\ TaskNew(t)
  /\ UNCHANGED <<gvars, batch, wpc, cur, result, token,
                 pollRes, waitRes, ret, sends, woken, execLog, ncancels>>
  /\ UNCHANGED <<svars, evars, cvars>>

\* every other caller of call_once returns once the initialiser has completed
CallOnceDone(t) ==
  /\ tpc[t] = "ensure"
  /\ ~CallOnceRuns
  /\ once = "done"
  /\ TaskNew(t)
  /\ UNCHANGED <<gvars, batch, wpc, cur, result, token,
                 pollRes, waitRes, ret, sends, woken, execLog, ncancels>>
  /\ UNCHANGED <<svars, evars, cvars>>

\* self.progress_handler.take(): the handler moves into the closure
HandlerTaken(t) ==
  [progress_handler EXCEPT ![t] = IF @ = "task" THEN "closure" ELSE @]

\* a handler the Task or a closure that is destroyed still owns is destroyed
HandlerDropped(t) ==
  [progress_handler EXCEPT ![t] = IF @ \in {"task", "closure"} THEN "released" ELSE @]

\* ---- start_thread: the worker loop -----------------------------------------
\* queue.lock().unwrap().drain(..).collect()
WorkerDrain(w) ==
  /\ wpc[w] = "drain"
  /\ batch' = [batch EXCEPT ![w] = queue[w]]
  /\ queue' = [queue EXCEPT ![w] = <<>>]
  /\ wpc' = [wpc EXCEPT ![w] = IF queue[w] = <<>> THEN "park" ELSE "call"]
  /\ UNCHANGED <<gvars, cur, result, token, tvars, hvars>>
  /\ UNCHANGED xvars

\* a closure that installs handlers whether or not it has a context pointer
WorkerCallInstalls(w) ==
  /\ wpc[w] = "call"
  /\ batch[w] # <<>>
  /\ cur' = [cur EXCEPT ![w] = Head(batch[w])]
  /\ batch' = [batch EXCEPT ![w] = Tail(batch[w])]
  /\ wpc' = [wpc EXCEPT ![w] = "install"]
  /\ execLog' = Append(execLog, <<"begin", Head(batch[w])>>)
  /\ UNCHANGED <<gvars, queue, result, token, tvars,
                 pollRes, waitRes, ret, sends, woken, pushLog, ncancels>>
  /\ UNCHANGED xvars

\* for task in tasks { task() }: the next closure of the batch is called; a
\* closure with a context pointer starts with the installation of its handlers
WorkerCall(w) ==
  /\ wpc[w] = "call"
  /\ batch[w] # <<>>
  /\ cur' = [cur EXCEPT ![w] = Head(batch[w])]
  /\ batch' = [batch EXCEPT ![w] = Tail(batch[w])]
  /\ wpc' = [wpc EXCEPT ![w] = IF context[Head(batch[w])] THEN "install" ELSE "fun"]
  /\ execLog' = Append(execLog, <<"begin", Head(batch[w])>>)
  /\ UNCHANGED <<gvars, queue, result, token, tvars,
                 pollRes, waitRes, ret, sends, woken, pushLog, ncancels>>
  /\ UNCHANGED xvars

\* let result = fun(): the user's closure (native calls) returns a value; a
\* closure with a context goes on to uninstall its handlers
WorkerFunReturn(w, v) ==
  /\ wpc[w] = "fun"
  /\ result' = [result EXCEPT ![w] = v]
  /\ ret' = [ret EXCEPT ![cur[w]] = v]
  /\ wpc' = [wpc EXCEPT ![w] = IF context[cur[w]] THEN "uninstall" ELSE "send"]
  /\ UNCHANGED <<gvars, queue, batch, cur, token, tvars,
                 pollRes, waitRes, sends, woken, pushLog, execLog, ncancels>>
  /\ UNCHANGED xvars

\* one result channel shared by the tasks in place of one per task
SendShared(t) == 1

\* the channel tx.send(result) delivers into
SendTarget(t) == t

\* tx.send(result).unwrap(): the send that fails panics, and the worker
\* thread ends
WorkerSendUnwrap(w) ==
  /\ wpc[w] = "send"
  /\ IF TaskAlive(cur[w])
     THEN /\ Len(chan[cur[w]]) < 1
          /\ chan' = [chan EXCEPT ![cur[w]] = Append(@, result[w])]
          /\ sends' = [sends EXCEPT ![cur[w]] = @ + 1]
          /\ wpc' = [wpc EXCEPT ![w] = "wake"]
     ELSE /\ wpc' = [wpc EXCEPT ![w] = "dead"]
          /\ UNCHANGED <<chan, sends>>
  /\ UNCHANGED <<gvars, queue, batch, cur, result, token,
                 tpc, op, task, recv_waker, cancel, waker_set, wk,
                 pollRes, waitRes, ret, woken, pushLog, execLog, ncancels>>
  /\ UNCHANGED xvars

\* tx.send(result): Err (ignored) when the receiver was dropped with the Task
WorkerSend(w) ==
  /\ wpc[w] = "send"
  /\ LET d == SendTarget(cur[w]) IN
       IF TaskAlive(d)
       THEN /\ Len(chan[d]) < 1
            /\ chan' = [chan EXCEPT ![d] = Append(@, result[w])]
            /\ sends' = [sends EXCEPT ![d] = @ + 1]
       ELSE UNCHANGED <<chan, sends>>
  /\ wpc' = [wpc EXCEPT ![w] = "wake"]
  /\ UNCHANGED <<gvars, queue, batch, cur, result, token,
                 tpc, op, task, recv_waker, cancel, waker_set, wk,
                 pollRes, waitRes, ret, woken, pushLog, execLog, ncancels>>
  /\ UNCHANGED xvars

\* if let Some(waker) = recv_waker.and_then(|w| w.try_recv().ok())
\* { waker.wake() }
TakeAndWake(t) ==
  IF wk[t] # <<>>
  THEN /\ woken' = [woken EXCEPT ![t] = Append(@, Head(wk[t]))]
       /\ wk' = [wk EXCEPT ![t] = Tail(@)]
  ELSE UNCHANGED <<woken, wk>>

\* Drop for Context that calls gp_context_unref itself
UnrefInline(n) == n + 1

\* Drop for Context: the Task made by Task::new(move || gp_context_unref(..))
\* is dropped at the end of the statement; it was never started, so its
\* closure is never pushed and gp_context_unref is not called
ContextDropUnrefs(n) == n

\* a worker that leaves its loop when a closure has returned an error value
ClosureReturnsStopOnErr(w) ==
  /\ unrefs' = unrefs
  /\ progress_handler' = progress_handler
  /\ execLog' = Append(execLog, <<"end", cur[w]>>)
  /\ cur' = [cur EXCEPT ![w] = 0]
  /\ result' = [result EXCEPT ![w] = "none"]
  /\ wpc' = [wpc EXCEPT ![w] = IF result[w] = "err" THEN "dead"
                               ELSE IF batch[w] = <<>> THEN "park" ELSE "call"]

\* the closure returns: its locals are dropped, among them the Context that
\* from_ptr made around the context pointer; the for loop goes on, or the
\* worker goes to park
ClosureReturns(w) ==
  /\ unrefs' = IF context[cur[w]] THEN ContextDropUnrefs(unrefs) ELSE unrefs
  /\ progress_handler' = HandlerDropped(cur[w])
  /\ execLog' = Append(execLog, <<"end", cur[w]>>)
  /\ cur' = [cur EXCEPT ![w] = 0]
  /\ result' = [result EXCEPT ![w] = "none"]
  /\ wpc' = [wpc EXCEPT ![w] = IF batch[w] = <<>> THEN "park" ELSE "call"]

\* the waker is taken and invoked before tx.send(result)
WorkerWakeEarly(w) ==
  \/ /\ wpc[w] = "send"
     /\ wk[cur[w]] # <<>>
     /\ TakeAndWake(cur[w])
     /\ UNCHANGED <<gvars, wvars, tpc, op, task, recv_waker, cancel, waker_set, chan,
                    pollRes, waitRes, ret, sends, pushLog, execLog, ncancels>>
     /\ UNCHANGED xvars
  \/ /\ wpc[w] = "wake"
     /\ UNCHANGED <<woken, wk>>
     /\ ClosureReturns(w)
     /\ UNCHANGED <<gvars, queue, batch, token,
                    tpc, op, task, recv_waker, cancel, waker_set, chan,
                    pollRes, waitRes, ret, sends, pushLog, ncancels>>
     /\ UNCHANGED <<context, svars, evars, handles, clones, dropped, early, late>>

\* the end of the closure: the waker, if one was registered, is invoked after
\* the send, and the closure returns
WorkerWake(w) ==
  /\ wpc[w] = "wake"
  /\ TakeAndWake(cur[w])
  /\ ClosureReturns(w)
  /\ UNCHANGED <<gvars, queue, batch, token,
                 tpc, op, task, recv_waker, cancel, waker_set, chan,
                 pollRes, waitRes, ret, sends, pushLog, ncancels>>
  /\ UNCHANGED <<context, svars, evars, handles, clones, dropped, early, late>>

\* thread::park() returns by consuming the token an unpark left
WorkerPark(w) ==
  /\ wpc[w] = "park"
  /\ token[w]
  /\ token' = [token EXCEPT ![w] = FALSE]
  /\ wpc' = [wpc EXCEPT ![w] = "drain"]
  /\ UNCHANGED <<gvars, queue, batch, cur, result, tvars, hvars>>
  /\ UNCHANGED xvars

\* thread::park() may also return spuriously
WorkerSpurious(w) ==
  /\ wpc[w] = "park"
  /\ ~token[w]
  /\ wpc' = [wpc EXCEPT ![w] = "drain"]
  /\ UNCHANGED <<gvars, queue, batch, cur, result, token, tvars, hvars>>
  /\ UNCHANGED xvars

\* ---- Task: start_task, wait, poll, background, cancel ----------------------
\* where the caller goes on after start_task, by the method it is inside
AfterStart(o) ==
  CASE o = "poll" -> "poll_recv"
    [] o = "wait" -> "wait_recv"
    [] OTHER -> "idle"

\* the closure is read without being taken out of the Task
TaskNotTaken(t) == task

\* self.task.take()
TaskTaken(t) == [task EXCEPT ![t] = FALSE]

\* the closure of a cancelled task is not pushed
PushUnlessCancelled(q, t) == IF cancel[t] THEN q ELSE Append(q, t)

\* push_front in place of push_back
PushFront(q, t) == <<t>> \o q

\* ThreadManager::spawn_task: queue.lock().unwrap().push_back(task)
PushBack(q, t) == Append(q, t)

\* a worker that keeps the MutexGuard of its queue while it runs the batch
LockHeldWhileRunning(w) == wpc[w] \in {"call", "install", "fun", "uninstall", "send", "wake"}

\* the queue Mutex of worker w is held by the worker at a point where other
\* threads take steps.  In start_thread the MutexGuard is a temporary of the
\* statement `let tasks = queue.lock().unwrap().drain(..).collect()`, dropped
\* at the end of that statement, which WorkerDrain is: between the steps of
\* the worker the lock is free.  The critical section of spawn_task is the
\* push alone.
QueueLocked(w) == FALSE

\* Task::start_task, up to and including the push of spawn_task.  Nothing
\* happens when the closure was taken before; the closure is dropped when
\* THREAD_MANAGER is None.  The context pointer, the waker receiver, the
\* progress handler and the cancel flag go into the closure.
StartTask(t, o) ==
  /\ op' = [op EXCEPT ![t] = o]
  /\ IF task[t]
     THEN /\ task' = TaskTaken(t)
          /\ recv_waker' = [recv_waker EXCEPT ![t] = FALSE]
          /\ IF THREAD_MANAGER # 0
             THEN /\ ~QueueLocked(THREAD_MANAGER)
                  /\ queue' = [queue EXCEPT ![THREAD_MANAGER] = PushBack(@, t)]
                  /\ pushLog' = Append(pushLog, t)
                  /\ tpc' = [tpc EXCEPT ![t] = "unpark"]
                  /\ progress_handler' = HandlerTaken(t)
             ELSE /\ tpc' = [tpc EXCEPT ![t] = AfterStart(o)]
                  /\ progress_handler' = HandlerDropped(t)
                  /\ UNCHANGED <<queue, pushLog>>
     ELSE /\ tpc' = [tpc EXCEPT ![t] = AfterStart(o)]
          /\ UNCHANGED <<task, recv_waker, queue, pushLog, progress_handler>>

\* an unpark that wakes a worker that is parked and leaves no token otherwise
UnparkIfParked(t) ==
  /\ tpc[t] = "unpark"
  /\ token' = [token EXCEPT ![THREAD_MANAGER] = (wpc[THREAD_MANAGER] = "park")]
  /\ tpc' = [tpc EXCEPT ![t] = AfterStart(op[t])]
  /\ UNCHANGED <<gvars, queue, batch, wpc, cur, result,
                 op, task, recv_waker, cancel, waker_set, chan, wk, hvars>>
  /\ UNCHANGED xvars

\* ThreadManager::continue_camera_thread: self.handle.thread().unpark()
Unpark(t) ==
  /\ tpc[t] = "unpark"
  /\ token' = [token EXCEPT ![THREAD_MANAGER] = TRUE]
  /\ tpc' = [tpc EXCEPT ![t] = AfterStart(op[t])]
  /\ UNCHANGED <<gvars, queue, batch, wpc, cur, result,
                 op, task, recv_waker, cancel, waker_set, chan, wk, hvars>>
  /\ UNCHANGED xvars

\* the waker is sent on every poll call
RegistersAlways(t) == TRUE

\* if !self.waker_set
RegistersWaker(t) == ~waker_set[t]

\* Future::poll up to the try_recv: the waker is sent to the waker channel
\* unless waker_set (the send is Err, ignored, when the receiving end is gone
\* with the closure), then self.start_task()
Poll(t) ==
  /\ tpc[t] = "idle"
  /\ Len(pollRes[t]) < MaxPolls
  /\ IF RegistersWaker(t)
     THEN /\ IF ClosureAlive(t)
             THEN /\ Len(wk[t]) < 1
                  /\ wk' = [wk EXCEPT ![t] = Append(@, Len(pollRes[t]) + 1)]
             ELSE UNCHANGED wk
          /\ waker_set' = [waker_set EXCEPT ![t] = TRUE]
     ELSE UNCHANGED <<wk, waker_set>>
  /\ StartTask(t, "poll")
  /\ UNCHANGED <<gvars, batch, wpc, cur, result, token, cancel, chan,
                 pollRes, waitRes, ret, sends, woken, execLog, ncancels>>
  /\ UNCHANGED <<context, svars, evars, cvars, late>>

\* a poll that reads the value and leaves it in the channel
PollRecvPeek(t) ==
  /\ tpc[t] = "poll_recv"
  /\ pollRes' = [pollRes EXCEPT ![t] =
                   Append(@, IF chan[t] # <<>> THEN Head(chan[t]) ELSE "Pending")]
  /\ tpc' = [tpc EXCEPT ![t] = "idle"]
  /\ UNCHANGED <<gvars, wvars, op, task, recv_waker, cancel, waker_set, chan, wk,
                 waitRes, ret, sends, woken, pushLog, execLog, ncancels>>
  /\ UNCHANGED xvars

\* Future::poll: self.rx.try_recv() gives Ready(value) or Pending
PollRecv(t) ==
  /\ tpc[t] = "poll_recv"
  /\ IF chan[t] # <<>>
     THEN /\ pollRes' = [pollRes EXCEPT ![t] = Append(@, Head(chan[t]))]
          /\ chan' = [chan EXCEPT ![t] = Tail(@)]
     ELSE /\ pollRes' = [pollRes EXCEPT ![t] = Append(@, "Pending")]
          /\ UNCHANGED chan
  /\ tpc' = [tpc EXCEPT ![t] = "idle"]
  /\ UNCHANGED op
  /\ UNCHANGED <<gvars, wvars, task, recv_waker, cancel, waker_set, wk,
                 waitRes, ret, sends, woken, pushLog, execLog, ncancels>>
  /\ UNCHANGED xvars

\* Task::try_wait, first part: self.start_task()
Wait(t) ==
  /\ tpc[t] = "idle"
  /\ StartTask(t, "wait")
  /\ UNCHANGED <<gvars, batch, wpc, cur, result, token, cancel, waker_set, chan, wk,
                 pollRes, waitRes, ret, sends, woken, execLog, ncancels>>
  /\ UNCHANGED <<context, svars, evars, cvars, late>>

\* Task::try_wait, second part: self.rx.recv() blocks until a value is there,
\* and is Err(RecvError) when the channel is empty and the sender is gone;
\* the Task, consumed by the call, is dropped
WaitRecv(t) ==
  /\ tpc[t] = "wait_recv"
  /\ chan[t] # <<>> \/ ~ClosureAlive(t)
  /\ IF chan[t] # <<>>
     THEN /\ waitRes' = [waitRes EXCEPT ![t] = Head(chan[t])]
          /\ chan' = [chan EXCEPT ![t] = Tail(@)]
     ELSE /\ waitRes' = [waitRes EXCEPT ![t] = "RecvError"]
          /\ UNCHANGED chan
  /\ tpc' = [tpc EXCEPT ![t] = "dropped"]
  /\ UNCHANGED op
  /\ UNCHANGED <<gvars, wvars, task, recv_waker, cancel, waker_set, wk,
                 pollRes, ret, sends, woken, pushLog, execLog, ncancels>>
  /\ UNCHANGED xvars

\* Task::background: self.start_task()
Background(t) ==
  /\ tpc[t] = "idle"
  /\ StartTask(t, "background")
  /\ UNCHANGED <<gvars, batch, wpc, cur, result, token, cancel, waker_set, chan, wk,
                 pollRes, waitRes, ret, sends, woken, execLog, ncancels>>
  /\ UNCHANGED <<context, svars, evars, cvars, late>>

\* fetch_xor in place of store: the flag is flipped
CancelToggle(t) == [cancel EXCEPT ![t] = ~@]

\* self.cancel.store(true, Ordering::Relaxed)
CancelStore(t) == [cancel EXCEPT ![t] = TRUE]

\* Task::cancel(&self)
Cancel(t) ==
  /\ tpc[t] = "idle"
  /\ ncancels < MaxCancels
  /\ cancel' = CancelStore(t)
  /\ ncancels' = ncancels + 1
  /\ UNCHANGED <<gvars, wvars, tpc, op, task, recv_waker, waker_set, chan, wk,
                 pollRes, waitRes, ret, sends, woken, pushLog, execLog>>
  /\ UNCHANGED xvars

\* the Task is dropped without wait(): a closure it still holds is dropped
\* with it, never having been enqueued
Drop(t) ==
  /\ tpc[t] = "idle"
  /\ tpc' = [tpc EXCEPT ![t] = "dropped"]
  /\ task' = [task EXCEPT ![t] = FALSE]
  /\ recv_waker' = [recv_waker EXCEPT ![t] = FALSE]
  /\ progress_handler' =
       [progress_handler EXCEPT ![t] = IF @ = "task" THEN "released" ELSE @]
  /\ UNCHANGED <<gvars, wvars, op, cancel, waker_set, chan, wk, hvars>>
  /\ UNCHANGED <<context, svars, evars, cvars, late>>

\* ---- native calls made on the caller's own thread ---------------------------
\* Camera::summary/about/manual/abilities, Context::clone (gp_context_ref),
\* Camera::clone (gp_camera_ref) call the native library inline
InlineCall ==
  /\ inline < MaxInline
  /\ inline' = inline + 1
  /\ UNCHANGED <<once, THREAD_MANAGER, nworkers, wvars, tvars, hvars>>
  /\ UNCHANGED xvars

InlineReturn ==
  /\ inline > 0
  /\ inline' = inline - 1
  /\ UNCHANGED <<once, THREAD_MANAGER, nworkers, wvars, tvars, hvars>>
  /\ UNCHANGED xvars

\* ---- the specification ----------------------------------------------------
Next ==
  \/ \E t \in Tasks :
       \/ EnsureCall(t)
       \/ CallOnceEnter(t)
       \/ ManagerInit(t)
       \/ CallOnceDone(t)
       \/ Poll(t)
       \/ PollRecv(t)
       \/ Wait(t)
       \/ WaitRecv(t)
       \/ Background(t)
       \/ Unpark(t)
       \/ Cancel(t)
       \/ Drop(t)
  \/ \E w \in Workers :
       \/ WorkerDrain(w)
       \/ WorkerCall(w)
       \/ \E v \in Values : WorkerFunReturn(w, v)
       \/ WorkerSend(w)
       \/ WorkerWake(w)
       \/ WorkerPark(w)
       \/ WorkerSpurious(w)

Spec == Init /\ [][Next]_vars

\* ---- the program with its scheduling -----------------------------------------
\* callers that wait on, poll, detach and drop their tasks
NextLive ==
  \/ \E t \in Tasks :
       \/ EnsureCall(t)
       \/ CallOnceEnter(t)
       \/ ManagerInit(t)
       \/ CallOnceDone(t)
       \/ Poll(t)
       \/ PollRecv(t)
       \/ Wait(t)
       \/ WaitRecv(t)
       \/ Background(t)
       \/ Unpark(t)
       \/ Drop(t)
  \/ \E w \in Workers :
       \/ WorkerDrain(w)
       \/ WorkerCall(w)
       \/ \E v \in Values : WorkerFunReturn(w, v)
       \/ WorkerSend(w)
       \/ WorkerWake(w)
       \/ WorkerPark(w)
       \/ WorkerSpurious(w)

\* a thread that can take a step takes one: the worker thread goes on through
\* its loop (every fun() returns: the closures terminate), park() returns
\* when the token is there, and a caller inside spawn_task or a method of
\* Task goes on to the end of the call.  A spurious return of park() and the
\* calls a caller chooses to make are not promised.
WorkerStep(w) ==
  \/ WorkerDrain(w)
  \/ WorkerCall(w)
  \/ \E v \in Values : WorkerFunReturn(w, v)
  \/ WorkerSend(w)
  \/ WorkerWake(w)
  \/ WorkerPark(w)

CallerStep(t) == Unpark(t) \/ PollRecv(t) \/ WaitRecv(t)

Fairness ==
  /\ \A w \in Workers : WF_vars(WorkerStep(w))
  /\ \A t \in Tasks : WF_vars(CallerStep(t))

SpecLive == Init /\ [][NextLive]_vars /\ Fairness

\* the same program with callers that also use the inline native calls
NextNative == Next \/ InlineCall \/ InlineReturn

SpecNative == Init /\ [][NextNative]_vars

\* ---- the callback bridge and the Context handles ----------------------------
\* Task::context(self, context): the Camera and Context methods call it on the
\* Task that Task::new returned, before the caller gets the Task
TaskContext(t) ==
  /\ tpc[t] = "idle"
  /\ task[t]
  /\ op[t] = "none"
  /\ ~cancel[t]
  /\ progress_handler[t] = "none"
  /\ ~context[t]
  /\ handles > 0
  /\ context' = [context EXCEPT ![t] = TRUE]
  /\ UNCHANGED <<gvars, wvars, tvars, hvars, progress_handler, svars, evars, cvars, late>>

\* Context::list_cameras: self.clone().inner makes a counted handle
\* (gp_context_ref) that is dropped at the end of the statement; then
\* Task::new(..).context(self.inner)
ListCameras(t) ==
  /\ tpc[t] = "idle"
  /\ task[t]
  /\ op[t] = "none"
  /\ ~cancel[t]
  /\ progress_handler[t] = "none"
  /\ ~context[t]
  /\ handles > 0
  /\ clones < MaxClones
  /\ context' = [context EXCEPT ![t] = TRUE]
  /\ clones' = clones + 1
  /\ dropped' = dropped + 1
  /\ unrefs' = ContextDropUnrefs(unrefs)
  /\ UNCHANGED <<gvars, wvars, tvars, hvars, progress_handler, svars, evars, handles, early, late>>

\* Task::set_progress_handler / with_progress_handler, called before the task
\* is started (a later call stores a handler that no closure takes)
SetProgressHandler(t) ==
  /\ tpc[t] = "idle"
  /\ task[t]
  /\ progress_handler[t] = "none"
  /\ progress_handler' = [progress_handler EXCEPT ![t] = "task"]
  /\ UNCHANGED <<gvars, wvars, tvars, hvars, context, svars, evars, cvars, late>>

\* the handler a late set_progress_handler call stored in the Task of t, as a
\* value of the progress slot
LateHandler(t) == MaxTasks + 1 + t

\* Task::set_progress_handler called after the task was started: the handler
\* is stored in self.progress_handler, which start_task has taken already
\* (line 71) and reads no more
SetProgressLate(t) ==
  /\ tpc[t] = "idle"
  /\ ~task[t]
  /\ op[t] # "none"
  /\ ~late[t]
  /\ late' = [late EXCEPT ![t] = TRUE]
  /\ UNCHANGED <<gvars, wvars, tvars, hvars, context, progress_handler, svars, evars, cvars>>

\* the cancel handler of another task is installed
CancelInstalledOther(t) == (t % MaxTasks) + 1

\* task_context.set_cancel_handler(TaskCancelHandler(cancel)):
\* gp_context_set_cancel_func with the handler that reads the flag of t
CancelInstalled(t) == t

\* a closure that installs the handler the Task holds when the closure runs
ProgressInstalledLatest(t) == IF late[t] THEN LateHandler(t) ELSE t

\* task_context.set_progress_handlers(progress_handler):
\* gp_context_set_progress_funcs with the handler of t
ProgressInstalled(t) == t

\* the closure, before fun(): Context::from_ptr, set_cancel_handler, and
\* set_progress_handlers when the task has a progress handler
WorkerInstall(w) ==
  /\ wpc[w] = "install"
  /\ slot_cancel' = CancelInstalled(cur[w])
  /\ IF progress_handler[cur[w]] = "closure"
     THEN /\ slot_progress' = ProgressInstalled(cur[w])
          /\ progress_handler' = [progress_handler EXCEPT ![cur[w]] = "context"]
     ELSE UNCHANGED <<slot_progress, progress_handler>>
  /\ wpc' = [wpc EXCEPT ![w] = "fun"]
  /\ UNCHANGED <<gvars, queue, batch, cur, result, token, tvars, hvars,
                 context, evars, cvars, late>>

\* the slots are left as they are
SlotsKept(x) == x

\* gp_context_set_cancel_func(ctx, None, null) and
\* gp_context_set_progress_funcs(ctx, None, None, None, null)
SlotsCleared(x) == 0

\* the closure, after fun(): unset_cancel_handlers and
\* unset_progress_handlers; the Arc of each handler is dropped
WorkerUninstall(w) ==
  /\ wpc[w] = "uninstall"
  /\ slot_cancel' = SlotsCleared(slot_cancel)
  /\ slot_progress' = SlotsCleared(slot_progress)
  /\ progress_handler' =
       [progress_handler EXCEPT ![cur[w]] = IF @ = "context" THEN "released" ELSE @]
  /\ wpc' = [wpc EXCEPT ![w] = "send"]
  /\ UNCHANGED <<gvars, queue, batch, cur, result, token, tvars, hvars,
                 context, evars, cvars, late>>

\* a cancel handler that holds the value the flag had when the task started
CancelSnapshot(t) == FALSE

\* one flag shared by all tasks: the load sees the cancel() of any task
CancelLoadShared(t) == \E u \in Tasks : cancel[u]

\* TaskCancelHandler::cancel: self.0.load(Ordering::Relaxed); the load gives
\* the latest store of the interleaving
CancelLoad(t) == cancel[t]

\* handle_cancel, the trampoline in the cancel slot; the native library takes
\* an empty slot as "go on"
HandleCancel ==
  IF slot_cancel \in Tasks /\ CancelLoad(slot_cancel) THEN "cancel" ELSE "ok"

\* inside fun(), the native library evaluates the cancel predicate of the
\* context the call was given
NativeCancelCheck(w) ==
  /\ wpc[w] = "fun"
  /\ context[cur[w]]
  /\ Total(feedback) < MaxChecks
  /\ feedback' = [feedback EXCEPT ![cur[w]] = Append(@, HandleCancel)]
  /\ UNCHANGED <<gvars, wvars, tvars, hvars, context, progress_handler, svars,
                 emitted, received, cvars, late>>

\* start_func, update_func, stop_func: as_handler(data).start / update / stop
Trampoline(e) == e

\* inside fun(), the native library reports progress on the context the call
\* was given: it calls the function the progress slot holds
NativeProgress(w, e) ==
  /\ wpc[w] = "fun"
  /\ context[cur[w]]
  /\ Total(emitted) < MaxEvents
  /\ emitted' = [emitted EXCEPT ![cur[w]] = Append(@, e)]
  /\ IF slot_progress \in Tasks
     THEN received' = [received EXCEPT ![slot_progress] = Append(@, Trampoline(e))]
     ELSE UNCHANGED received
  /\ UNCHANGED <<gvars, wvars, tvars, hvars, context, progress_handler, svars,
                 feedback, cvars, late>>

\* Context::set_progress_handlers called on a Context handle: it calls
\* gp_context_set_progress_funcs on the caller's thread
UserSetProgress ==
  /\ handles > 0
  /\ slot_progress # UserHandler
  /\ slot_progress' = UserHandler
  /\ UNCHANGED <<gvars, wvars, tvars, hvars, context, progress_handler, slot_cancel,
                 evars, cvars, late>>

\* Clone for Context: gp_context_ref on the caller's thread
ContextClone ==
  /\ handles > 0
  /\ clones < MaxClones
  /\ clones' = clones + 1
  /\ handles' = handles + 1
  /\ UNCHANGED <<gvars, wvars, tvars, hvars, context, progress_handler, svars, evars,
                 unrefs, dropped, early, late>>

\* Drop for Context: Task::new runs ensure_started, which starts the worker
\* when this is its first call, and the Task is dropped unstarted
ContextDrop ==
  /\ handles > 0
  /\ once # "running"
  /\ handles' = handles - 1
  /\ dropped' = dropped + 1
  /\ unrefs' = ContextDropUnrefs(unrefs)
  /\ early' = IF handles = 1
              THEN {t \in Tasks : context[t] /\ InSeq(t, pushLog)}
              ELSE early
  /\ IF CallOnceRuns
     THEN /\ nworkers < MaxWorkers
          /\ nworkers' = nworkers + 1
          /\ THREAD_MANAGER' = nworkers + 1
          /\ once' = "done"
          /\ wpc' = [wpc EXCEPT ![nworkers + 1] = "drain"]
     ELSE UNCHANGED <<nworkers, THREAD_MANAGER, once, wpc>>
  /\ UNCHANGED <<inline, queue, batch, cur, result, token, tvars, hvars,
                 context, progress_handler, svars, evars, clones, late>>

\* ---- the program under three kinds of callers --------------------------------
\* callers that poll their context-bound tasks and then wait on them, and
\* cancel them at any time; the native calls evaluate the cancel predicate
NextCancel ==
  \/ \E t \in Tasks :
       \/ EnsureCall(t)
       \/ CallOnceEnter(t)
       \/ ManagerInit(t)
       \/ CallOnceDone(t)
       \/ TaskContext(t)
       \/ Poll(t)
       \/ PollRecv(t)
       \/ Wait(t)
       \/ WaitRecv(t)
       \/ Unpark(t)
       \/ Cancel(t)
  \/ \E w \in Workers :
       \/ WorkerDrain(w)
       \/ WorkerCall(w)
       \/ WorkerInstall(w)
       \/ NativeCancelCheck(w)
       \/ \E v \in Values : WorkerFunReturn(w, v)
       \/ WorkerUninstall(w)
       \/ WorkerSend(w)
       \/ WorkerWake(w)
       \/ WorkerPark(w)

SpecCancel == Init /\ [][NextCancel]_vars

\* callers that give their tasks progress handlers and wait on them, and
\* that also install a handler on the Context itself; the native calls
\* report progress
NextProgress ==
  \/ \E t \in Tasks :
       \/ EnsureCall(t)
       \/ CallOnceEnter(t)
       \/ ManagerInit(t)
       \/ CallOnceDone(t)
       \/ TaskContext(t)
       \/ SetProgressHandler(t)
       \/ Wait(t)
       \/ WaitRecv(t)
       \/ Unpark(t)
  \/ \E w \in Workers :
       \/ WorkerDrain(w)
       \/ WorkerCall(w)
       \/ WorkerInstall(w)
       \/ \E e \in Events : NativeProgress(w, e)
       \/ \E v \in Values : WorkerFunReturn(w, v)
       \/ WorkerUninstall(w)
       \/ WorkerSend(w)
       \/ WorkerWake(w)
       \/ WorkerPark(w)
  \/ UserSetProgress

SpecProgress == Init /\ [][NextProgress]_vars

\* callers that wait on tasks with and without a Context, give them progress
\* handlers and cancel them; the native calls of the Context-bound closures
\* report progress and evaluate the cancel predicate
NextUnbound ==
  \/ \E t \in Tasks :
       \/ EnsureCall(t)
       \/ CallOnceEnter(t)
       \/ ManagerInit(t)
       \/ CallOnceDone(t)
       \/ TaskContext(t)
       \/ SetProgressHandler(t)
       \/ Cancel(t)
       \/ Wait(t)
       \/ WaitRecv(t)
       \/ Unpark(t)
  \/ \E w \in Workers :
       \/ WorkerDrain(w)
       \/ WorkerCall(w)
       \/ WorkerInstall(w)
       \/ NativeCancelCheck(w)
       \/ \E e \in Events : NativeProgress(w, e)
       \/ \E v \in Values : WorkerFunReturn(w, v)
       \/ WorkerUninstall(w)
       \/ WorkerSend(w)
       \/ WorkerWake(w)
       \/ WorkerPark(w)

SpecUnbound == Init /\ [][NextUnbound]_vars

\* callers that clone and drop Context handles and wait on tasks made by
\* Context and Camera methods
NextContext ==
  \/ \E t \in Tasks :
       \/ EnsureCall(t)
       \/ CallOnceEnter(t)
       \/ ManagerInit(t)
       \/ CallOnceDone(t)
       \/ TaskContext(t)
       \/ ListCameras(t)
       \/ Wait(t)
       \/ WaitRecv(t)
       \/ Unpark(t)
  \/ \E w \in Workers :
       \/ WorkerDrain(w)
       \/ WorkerCall(w)
       \/ WorkerInstall(w)
       \/ \E v \in Values : WorkerFunReturn(w, v)
       \/ WorkerUninstall(w)
       \/ WorkerSend(w)
       \/ WorkerWake(w)
       \/ WorkerPark(w)
  \/ ContextClone
  \/ ContextDrop

SpecContext == Init /\ [][NextContext]_vars

\* callers that give their tasks progress handlers, before or after starting
\* them, and poll them; the native calls report progress
NextHandler ==
  \/ \E t \in Tasks :
       \/ EnsureCall(t)
       \/ CallOnceEnter(t)
       \/ ManagerInit(t)
       \/ CallOnceDone(t)
       \/ TaskContext(t)
       \/ SetProgressHandler(t)
       \/ SetProgressLate(t)
       \/ Poll(t)
       \/ PollRecv(t)
       \/ Unpark(t)
  \/ \E w \in Workers :
       \/ WorkerDrain(w)
       \/ WorkerCall(w)
       \/ WorkerInstall(w)
       \/ \E e \in Events : NativeProgress(w, e)
       \/ \E v \in Values : WorkerFunReturn(w, v)
       \/ WorkerUninstall(w)
       \/ WorkerSend(w)
       \/ WorkerWake(w)
       \/ WorkerPark(w)

SpecHandler == Init /\ [][NextHandler]_vars

\* fun() panics (the closure of WidgetBase's drop unwraps the result of
\* gp_widget_unref): the closure unwinds without sending, what it owns (tx,
\* the waker receiver, the progress handler, the Context made by from_ptr) is
\* dropped, and so are the closures of the drained batch that were not called
\* yet; nothing catches the panic, so the worker thread ends.  The queue
\* stays with the ThreadManager.
WorkerAbort(w) ==
  /\ wpc[w] = "fun"
  /\ wpc' = [wpc EXCEPT ![w] = "dead"]
  /\ cur' = [cur EXCEPT ![w] = 0]
  /\ batch' = [batch EXCEPT ![w] = <<>>]
  /\ progress_handler' =
       [t \in Tasks |->
          IF (t = cur[w] \/ InSeq(t, batch[w]))
             /\ progress_handler[t] \in {"closure", "context"}
          THEN "released" ELSE progress_handler[t]]
  /\ unrefs' = IF context[cur[w]] THEN ContextDropUnrefs(unrefs) ELSE unrefs
  /\ UNCHANGED <<gvars, queue, result, token, tvars, hvars,
                 context, svars, evars, handles, clones, dropped, early, late>>

\* the program with closures that may panic
NextAbort == Next \/ \E w \in Workers : WorkerAbort(w)

SpecAbort == Init /\ [][NextAbort]_vars

\* the callers of SpecProgress, with closures that may panic
NextProgressAbort == NextProgress \/ \E w \in Workers : WorkerAbort(w)

SpecProgressAbort == Init /\ [][NextProgressAbort]_vars

\* the program with its scheduling and with closures that may panic
NextAbortLive == NextLive \/ \E w \in Workers : WorkerAbort(w)

SpecAbortLive == Init /\ [][NextAbortLive]_vars /\ Fairness

\* ---- closures that enqueue closures --------------------------------------------
\* inside fun() a value that owns native data is dropped on the worker thread
\* (a WidgetBase made and dropped inside the closure of Camera::config_key):
\* Drop for WidgetBase runs Task::new(unref closure).background() there and
\* the Task is dropped.  ensure_started returns at once (the Once is done),
\* start_task takes the read lock of THREAD_MANAGER and spawn_task locks the
\* queue, pushes, and unparks the worker, the calling thread itself, which
\* leaves it the token.  u is the Task made: no caller thread ever has it.
WorkerSpawn(w, u) ==
  /\ wpc[w] = "fun"
  /\ tpc[u] = "none"
  /\ once = "done"
  /\ THREAD_MANAGER # 0
  /\ ~QueueLocked(THREAD_MANAGER)
  /\ tpc' = [tpc EXCEPT ![u] = "dropped"]
  /\ op' = [op EXCEPT ![u] = "background"]
  /\ queue' = [queue EXCEPT ![THREAD_MANAGER] = PushBack(@, u)]
  /\ pushLog' = Append(pushLog, u)
  /\ token' = [token EXCEPT ![THREAD_MANAGER] = TRUE]
  /\ UNCHANGED <<gvars, batch, wpc, cur, result,
                 task, recv_waker, cancel, waker_set, chan, wk,
                 pollRes, waitRes, ret, sends, woken, execLog, ncancels>>
  /\ UNCHANGED xvars

\* callers that poll and wait on their tasks, and closures that drop
\* widgets while they run
NextNested ==
  \/ \E t \in Tasks :
       \/ EnsureCall(t)
       \/ CallOnceEnter(t)
       \/ ManagerInit(t)
       \/ CallOnceDone(t)
       \/ Poll(t)
       \/ PollRecv(t)
       \/ Wait(t)
       \/ WaitRecv(t)
       \/ Unpark(t)
  \/ \E w \in Workers :
       \/ WorkerDrain(w)
       \/ WorkerCall(w)
       \/ \E u \in Tasks : WorkerSpawn(w, u)
       \/ \E v \in Values : WorkerFunReturn(w, v)
       \/ WorkerSend(w)
       \/ WorkerWake(w)
       \/ WorkerPark(w)
       \/ WorkerSpurious(w)

SpecNested == Init /\ [][NextNested]_vars /\ Fairness

\* ---- tasks whose result owns a Camera ------------------------------------------
\* the closure Drop for Camera builds, move || gp_camera_unref(*camera), as an
\* entry of the queue
CameraUnref == MaxTasks + 2

\* tx.send(result) of a task made by Context::autodetect_camera or
\* get_camera (T = Result<Camera>).  When the Task was dropped the send
\* returns Err(SendError(result)), and the statement drops it at once, on the
\* worker thread: an Ok result owns a Camera, and Drop for Camera runs
\* Task::new(unref closure).wait(): start_task pushes the closure onto the
\* queue of THREAD_MANAGER and unparks, and rx.recv() blocks the calling
\* thread, the worker, until that closure has sent or is destroyed.  The
\* closure is in the queue only this worker drains, so recv() does not
\* return: the worker has no further step.
WorkerSendCamera(w) ==
  /\ wpc[w] = "send"
  /\ IF TaskAlive(cur[w])
     THEN /\ Len(chan[cur[w]]) < 1
          /\ chan' = [chan EXCEPT ![cur[w]] = Append(@, result[w])]
          /\ sends' = [sends EXCEPT ![cur[w]] = @ + 1]
          /\ wpc' = [wpc EXCEPT ![w] = "wake"]
          /\ UNCHANGED <<queue, pushLog, token>>
     ELSE IF result[w] = "ok"
          THEN /\ queue' = [queue EXCEPT ![THREAD_MANAGER] = PushBack(@, CameraUnref)]
               /\ pushLog' = Append(pushLog, CameraUnref)
               /\ token' = [token EXCEPT ![THREAD_MANAGER] = TRUE]
               /\ wpc' = [wpc EXCEPT ![w] = "recv"]
               /\ UNCHANGED <<chan, sends>>
          ELSE /\ wpc' = [wpc EXCEPT ![w] = "wake"]
               /\ UNCHANGED <<chan, sends, queue, pushLog, token>>
  /\ UNCHANGED <<gvars, batch, cur, result,
                 tpc, op, task, recv_waker, cancel, waker_set, wk,
                 pollRes, waitRes, ret, woken, execLog, ncancels>>
  /\ UNCHANGED xvars

\* callers that poll, wait on and drop tasks made by autodetect_camera and
\* get_camera
NextCamera ==
  \/ \E t \in Tasks :
       \/ EnsureCall(t)
       \/ CallOnceEnter(t)
       \/ ManagerInit(t)
       \/ CallOnceDone(t)
       \/ TaskContext(t)
       \/ Poll(t)
       \/ PollRecv(t)
       \/ Wait(t)
       \/ WaitRecv(t)
       \/ Unpark(t)
       \/ Drop(t)
  \/ \E w \in Workers :
       \/ WorkerDrain(w)
       \/ WorkerCall(w)
       \/ WorkerInstall(w)
       \/ \E v \in Values : WorkerFunReturn(w, v)
       \/ WorkerUninstall(w)
       \/ WorkerSendCamera(w)
       \/ WorkerWake(w)
       \/ WorkerPark(w)

WorkerStepCamera(w) ==
  \/ WorkerDrain(w)
  \/ WorkerCall(w)
  \/ WorkerInstall(w)
  \/ \E v \in Values : WorkerFunReturn(w, v)
  \/ WorkerUninstall(w)
  \/ WorkerSendCamera(w)
  \/ WorkerWake(w)
  \/ WorkerPark(w)

FairnessCamera ==
  /\ \A w \in Workers : WF_vars(WorkerStepCamera(w))
  /\ \A t \in Tasks : WF_vars(CallerStep(t))

SpecCamera == Init /\ [][NextCamera]_vars /\ FairnessCamera

\* ---- tasks that captured the native handle of a Camera -------------------------
\* one Camera handle, not cloned; the last task is the one Drop for Camera
\* makes, the others are made by Camera::capture_image
UnrefTask == MaxTasks
CaptureTasks == Tasks \ {UnrefTask}

\* Camera::capture_image(&self): it borrows the Camera, which is alive; the
\* closure captures self.camera, the raw pointer, and the Task it returns
\* has no lifetime tied to the Camera
CaptureImage(t) ==
  /\ tpc[UnrefTask] = "none"
  /\ EnsureCall(t)

\* .context(context), before capture_image returns
CaptureContext(t) == tpc[t] = "idle" /\ TaskContext(t)

\* the caller starts the task it got from capture_image
CapturePoll(t) == context[t] /\ Poll(t)

CaptureWait(t) == context[t] /\ Wait(t)

\* Drop for Camera: Task::new(move || gp_camera_unref(*camera)), once no
\* capture_image call borrows the Camera any more
CameraDrop ==
  /\ \A t \in CaptureTasks :
       /\ tpc[t] \notin {"ensure", "init"}
       /\ tpc[t] # "none" => context[t]
  /\ EnsureCall(UnrefTask)

\* Drop for Camera: .wait() on the Task it made
CameraDropWait == tpc[UnrefTask] = "idle" /\ Wait(UnrefTask)

\* callers that make tasks with capture_image, drop the Camera, and poll or
\* wait on the tasks before or after that
NextRelease ==
  \/ \E t \in CaptureTasks :
       \/ CaptureImage(t)
       \/ CaptureContext(t)
       \/ CapturePoll(t)
       \/ CaptureWait(t)
  \/ CameraDrop
  \/ CameraDropWait
  \/ \E t \in Tasks :
       \/ CallOnceEnter(t)
       \/ ManagerInit(t)
       \/ CallOnceDone(t)
       \/ PollRecv(t)
       \/ WaitRecv(t)
       \/ Unpark(t)
  \/ \E w \in Workers :
       \/ WorkerDrain(w)
       \/ WorkerCall(w)
       \/ WorkerInstall(w)
       \/ \E v \in Values : WorkerFunReturn(w, v)
       \/ WorkerUninstall(w)
       \/ WorkerSend(w)
       \/ WorkerWake(w)
       \/ WorkerPark(w)

SpecRelease == Init /\ [][NextRelease]_vars

\* ---- what the logs say ----------------------------------------------------
Begun(t) == InSeq(<<"begin", t>>, execLog)
Ended(t) == InSeq(<<"end", t>>, execLog)
Running(w) == wpc[w] \in {"install", "fun", "uninstall", "send", "wake"}
Created(t) == tpc[t] \notin {"none", "ensure", "init"}

\* ---- C1 ---------------------------------------------------------------------
\* C1: at most one submitted closure is executing at any instant, over all
\* worker threads that exist, and no closure begins before the closure begun
\* before it has returned.
C1_MutualExclusion ==
  /\ Cardinality({w \in Workers : Running(w)}) <= 1
  /\ \A i \in DOMAIN execLog :
       (i > 1 /\ execLog[i][1] = "begin") => execLog[i - 1][1] = "end"

\* a closure is executing while another one, enqueued meanwhile, waits
C1_Witness ==
  \E w \in Workers : Running(w) /\ cur[w] # 0 /\ queue[w] # <<>>

\* ---- C2 ---------------------------------------------------------------------
\* C2: FIFO: a closure pushed before another one has fully returned before
\* the other one begins.
C2_Fifo ==
  \A i, j \in DOMAIN pushLog :
    (i < j /\ Begun(pushLog[j])) =>
      /\ Ended(pushLog[i])
      /\ Pos(<<"end", pushLog[i]>>, execLog) < Pos(<<"begin", pushLog[j]>>, execLog)

\* two closures pushed by different callers have both been executed
C2_Witness ==
  /\ Len(pushLog) >= 2
  /\ Ended(pushLog[1])
  /\ Ended(pushLog[2])

\* ---- C3 ---------------------------------------------------------------------
\* C3: result fidelity: what wait() returns or poll yields as Ready is the
\* value the task's own closure returned, and the closure had returned it.
C3_Fidelity ==
  \A t \in Tasks :
    /\ waitRes[t] \in Values => (ret[t] # "none" /\ waitRes[t] = ret[t])
    /\ \A k \in DOMAIN pollRes[t] :
         pollRes[t][k] # "Pending" => (ret[t] # "none" /\ pollRes[t][k] = ret[t])

\* wait() delivered an error value while another task's closure returned
\* a success value, and a poll delivered a value
C3_Witness ==
  \E t, u \in Tasks :
    /\ waitRes[t] = "err"
    /\ ret[u] = "ok"
    /\ \E k \in DOMAIN pollRes[u] : pollRes[u][k] = "ok"

Stage(t) == IF task[t] THEN 0 ELSE IF ClosureAlive(t) THEN 1 ELSE 2

C5_Counts ==
  \A t \in Tasks :
    /\ Count(t, pushLog) <= 1
    /\ Count(<<"begin", t>>, execLog) <= 1
    /\ Count(<<"end", t>>, execLog) <= 1
    /\ sends[t] <= 1
    /\ op[t] # "none" => Count(t, pushLog) = 1

C5_NoWayBack ==
  \A t \in Tasks : Created(t) => Stage(t)' >= Stage(t)

\* C5: a task's state only moves Not-Started -> Running -> Completed: under
\* any sequence of poll(), background(), cancel() and a final wait() the
\* closure is enqueued exactly once, executed at most once, its result sent
\* at most once, and no step moves the task back to an earlier state.
C5_OneWay == []C5_Counts /\ [][C5_NoWayBack]_vars

\* a task was polled twice, cancelled and finally waited on, and delivered
C5_Witness ==
  \E t \in Tasks :
    /\ Len(pollRes[t]) = 2
    /\ cancel[t]
    /\ waitRes[t] \in Values
    /\ Stage(t) = 2

\* ---- C6 ---------------------------------------------------------------------
C6_One ==
  /\ nworkers <= 1
  /\ THREAD_MANAGER = nworkers
  /\ Cardinality({w \in Workers : wpc[w] # "unborn"}) = nworkers
  /\ once = "done" => nworkers = 1
  /\ \A t \in Tasks : Created(t) => THREAD_MANAGER = 1

\* C6: idempotent startup: whatever the interleaving of the callers of
\* ensure_started, exactly one worker thread and one queue are created, and
\* once THREAD_MANAGER is set no later call changes it.
C6_IdempotentStartup ==
  []C6_One /\ [][THREAD_MANAGER # 0 => THREAD_MANAGER' = THREAD_MANAGER]_vars

\* every caller has come back from ensure_started, one of them after having
\* waited for the initialiser another one ran
C6_Witness ==
  /\ \A t \in Tasks : Created(t)
  /\ nworkers = 1
  /\ THREAD_MANAGER = 1

\* ---- C7 ---------------------------------------------------------------------
\* native-library calls in progress: fun() on a worker thread, and the calls
\* caller threads make inline
NativeCalls == Cardinality({w \in Workers : wpc[w] = "fun"}) + inline

\* C7: every call into the native library is serialized through the worker:
\* at no instant are two native-library calls in progress on different
\* threads.
C7_NativeSerialized == NativeCalls <= 1

PollReturns(t) == Len(pollRes'[t]) > Len(pollRes[t])
LastPoll(t) == pollRes'[t][Len(pollRes'[t])]
NoReadyYet(t) == \A k \in DOMAIN pollRes[t] : pollRes[t][k] = "Pending"

\* C9 as stated: the continuation is invoked at most once per task and only
\* after the result has been placed in the result channel, and whenever it
\* has been invoked the next poll() returns Ready.
C9_WokenThenReady ==
  /\ [](\A t \in Tasks : Len(woken[t]) <= 1 /\ (woken[t] # <<>> => sends[t] = 1))
  /\ [][\A t \in Tasks :
          (PollReturns(t) /\ woken[t] # <<>>) => LastPoll(t) # "Pending"]_vars

\* C9 amended: the continuation is invoked at most once per task and only
\* after the closure's send step, which has placed the result in the channel
\* unless the Task had been dropped; whenever it has been invoked and no
\* earlier poll() returned Ready, the next poll() returns Ready with the
\* result.
C9_WokenAfterSend ==
  /\ [](\A t \in Tasks :
          /\ Len(woken[t]) <= 1
          /\ woken[t] # <<>> =>
               (ret[t] # "none" /\ (sends[t] = 1 \/ tpc[t] = "dropped")))
  /\ [][\A t \in Tasks :
          (PollReturns(t) /\ woken[t] # <<>> /\ NoReadyYet(t)) => LastPoll(t) = ret[t]]_vars

\* the continuation of a Pending poll was invoked and the next poll
\* returned the result
C9_Witness ==
  \E t \in Tasks :
    /\ woken[t] = <<1>>
    /\ Len(pollRes[t]) = 2
    /\ pollRes[t][1] = "Pending"
    /\ pollRes[t][2] = ret[t]
    /\ sends[t] = 1

\* ---- C10 --------------------------------------------------------------------
\* C10: cancel() is idempotent and monotone: a set cancel flag is never
\* cleared, and a cancel() call, before or after the task completed, sets the
\* flag of its own task and changes nothing else: no result, no channel, no
\* other task's flag, nothing of the worker.
C10_CancelMonotone ==
  [][/\ \A t \in Tasks : cancel[t] => cancel'[t]
     /\ ncancels' # ncancels =>
          /\ \E t \in Tasks :
               /\ TaskAlive(t)
               /\ cancel'[t]
               /\ \A u \in Tasks \ {t} : cancel'[u] = cancel[u]
          /\ UNCHANGED <<gvars, wvars, tpc, op, task, recv_waker, waker_set, chan, wk,
                         pollRes, waitRes, ret, sends, woken, pushLog, execLog>>]_vars

\* cancel() was called twice on a task whose closure has completed and whose
\* result a poll has delivered; the other tasks' flags are clear
C10_Witness ==
  \E t \in Tasks :
    /\ ncancels = 2
    /\ cancel[t]
    /\ \A u \in Tasks \ {t} : ~cancel[u]
    /\ TaskAlive(t)
    /\ Ended(t)
    /\ \E k \in DOMAIN pollRes[t] : pollRes[t][k] = ret[t]

\* ---- C11 --------------------------------------------------------------------
\* a cancel check is made in the closure of t in this step
CheckMade(t) == Len(feedback'[t]) > Len(feedback[t])
LastCheck(t) == feedback'[t][Len(feedback'[t])]

\* C11: for a task bound to a Context, every evaluation of the cancel
\* predicate the native library makes during the closure returns "cancel"
\* when cancel() was called on the task before (also before the task was
\* started), and "ok" when cancel() was never called on it; a flag is set
\* only by a cancel() call.
C11_CancelObserved ==
  /\ [](\A t \in Tasks :
          /\ cancel[t] => ncancels > 0
          /\ ncancels = 0 => \A i \in DOMAIN feedback[t] : feedback[t][i] = "ok")
  /\ [][\A t \in Tasks :
          CheckMade(t) => LastCheck(t) = IF cancel[t] THEN "cancel" ELSE "ok"]_vars

\* a task was cancelled between two cancel checks of its closure: the first
\* check returned "ok" and the second "cancel"
C11_Witness ==
  \E t \in Tasks : feedback[t] = <<"ok", "cancel">>

\* ---- C12 --------------------------------------------------------------------
\* the closure of t is in a queue, in a drained batch or being executed
ClosureHeld(t) ==
  \E w \in Workers : InSeq(t, queue[w]) \/ InSeq(t, batch[w]) \/ cur[w] = t

\* C12: cancel() never interrupts or dequeues: a cancel() call changes
\* nothing of the worker and its queue; a cancelled task is enqueued all the
\* same by wait()/poll(); a closure leaves the queue only by being executed
\* to its own return; what wait() returns for a cancelled task is the
\* closure's value; and as long as the closure has not consulted the cancel
\* predicate every return value is open to it whatever the flag is.
C12_CancelNoInterrupt ==
  /\ [](\A t \in Tasks :
          /\ (cancel[t] /\ waitRes[t] \in Values) => waitRes[t] = ret[t]
          /\ (cancel[t] /\ waitRes[t] = "RecvError") =>
               \E k \in DOMAIN pollRes[t] : pollRes[t][k] = ret[t]
          /\ \A w \in Workers :
               (wpc[w] = "fun" /\ cur[w] = t /\ feedback[t] = <<>>) =>
                 \A v \in Values : ENABLED WorkerFunReturn(w, v))
  /\ [][/\ ncancels' # ncancels => UNCHANGED <<wvars, chan, wk, task>>
        /\ \A t \in Tasks :
             /\ (task[t] /\ ~task'[t] /\ tpc'[t] # "dropped") => ClosureHeld(t)'
             /\ (ClosureHeld(t) /\ ~ClosureHeld(t)') => Ended(t)']_vars

\* a task cancelled before it was started and one cancelled after a Pending
\* poll both delivered the closure's value to wait()
C12_Witness ==
  \E t, u \in Tasks :
    /\ t # u
    /\ cancel[t] /\ cancel[u]
    /\ waitRes[t] = "ok" /\ ret[t] = "ok"
    /\ pollRes[t] = <<>>
    /\ pollRes[u] = <<"Pending">>
    /\ waitRes[u] = "err" /\ ret[u] = "err"

\* ---- C13 --------------------------------------------------------------------
\* the task has a progress handler that has not been destroyed
HandlerAlive(t) == progress_handler[t] \in {"task", "closure", "context"}

\* C13: the callback bridge always uninstalls: when the closure of a
\* Context-bound task has returned from fun() and comes to send its result,
\* the progress slot and the cancel slot of the Context are both empty and
\* the task's progress handler has been released; this is still so when
\* wait() has returned with the result and no other closure has begun since.
C13_Uninstalled ==
  /\ \A w \in Workers :
       (wpc[w] \in {"send", "wake"} /\ context[cur[w]]) =>
         /\ slot_cancel = 0
         /\ slot_progress = 0
         /\ ~HandlerAlive(cur[w])
  /\ \A t \in Tasks :
       (/\ context[t]
        /\ waitRes[t] \in Values
        /\ execLog[Len(execLog)] = <<"end", t>>) =>
         /\ slot_cancel = 0
         /\ slot_progress = 0
         /\ ~HandlerAlive(t)

\* ---- C14 --------------------------------------------------------------------
\* the closure of t is between the installation and the removal of its
\* handlers
Bridged(t) == \E w \in Workers : cur[w] = t /\ wpc[w] \in {"fun", "uninstall"}

C15_NoCrossTalk ==
  \A t \in Tasks :
    /\ (context[t] /\ progress_handler[t] # "none") => received[t] = emitted[t]
    /\ progress_handler[t] = "none" => received[t] = <<>>
    /\ ~context[t] => received[t] = <<>>

\* ---- C16 --------------------------------------------------------------------
\* the closure Drop for Context builds, move || gp_context_unref(*context),
\* as an entry of the queue
UnrefClosure == MaxTasks + 1

\* C16: Context release is routed through the executor: for every Context
\* handle that was dropped a closure performing the native unref has been
\* submitted to the work queue, and no unref is made but by such a closure
\* executed by the worker (so that the native context is released after the
\* last handle is dropped).
C16_ReleaseRouted ==
  /\ Count(UnrefClosure, pushLog) = dropped
  /\ unrefs = Count(<<"end", UnrefClosure>>, execLog)

\* ---- C17 --------------------------------------------------------------------
\* the native context has been released: its reference count, 1 from
\* gp_context_new plus the gp_context_ref calls, has been taken down to 0
Released == unrefs > clones

\* C17: if task A bound to Context C was enqueued before C's last handle was
\* dropped, the native release of C does not execute before A's closure has
\* returned, nor while it executes.
C17_ReleaseAfterTasks ==
  Released => \A t \in early : Ended(t)

\* the last handle was dropped while a context-bound task enqueued before
\* was still in the queue or executing
C17_Witness ==
  /\ handles = 0
  /\ \E t \in early : ~Ended(t)

\* ---- C18 --------------------------------------------------------------------
\* C18: no premature release: the native context is not released while a
\* Context handle is alive, and the number of native unrefs executed is at
\* most the number of counted handles dropped, the drop of the un-counted
\* Context that from_ptr makes in each Context-bound closure and of the
\* clone list_cameras makes being among the drops that happen.
C18_NoPrematureRelease ==
  /\ unrefs <= dropped
  /\ handles > 0 => ~Released

\* a handle is alive after the closure of a list_cameras task has returned:
\* the clone of list_cameras and the Context made by from_ptr were dropped
C18_Witness ==
  \E t \in Tasks :
    /\ context[t]
    /\ Ended(t)
    /\ clones = 1
    /\ dropped = 1
    /\ handles = 1

\* ---- C19 --------------------------------------------------------------------
\* the task was started and its closure is gone without fun() having returned:
\* no result was sent and none will be
Lost(t) == op[t] # "none" /\ ~ClosureAlive(t) /\ ret[t] = "none"

\* C19: a lost result is surfaced, not hung: when the closure of a started
\* task was destroyed or aborted without sending, try_wait() does not block
\* and returns the error (wait() fails), and no poll() of such a task returns
\* Pending unless its continuation has been invoked (nothing can invoke it
\* any more once the closure is gone).
C19_LostSurfaced ==
  /\ [](\A t \in Tasks :
          /\ (Lost(t) /\ tpc[t] = "wait_recv") => ENABLED WaitRecv(t)
          /\ (Lost(t) /\ waitRes[t] # "none") => waitRes[t] = "RecvError")
  /\ [][\A t \in Tasks :
          (Lost(t) /\ PollReturns(t) /\ LastPoll(t) = "Pending") => woken[t] # <<>>]_vars

\* ---- C20 --------------------------------------------------------------------
\* worker w is at a point of its loop from which it goes on
GoesOn(w) ==
  /\ wpc[w] \in {"drain", "call", "install", "fun", "uninstall", "send", "wake", "park"}
  /\ wpc[w] = "drain" => ENABLED WorkerDrain(w)
  /\ wpc[w] = "call" => ENABLED WorkerCall(w)
  /\ wpc[w] = "send" => ENABLED WorkerSend(w)
  /\ wpc[w] = "wake" => ENABLED WorkerWake(w)
  /\ (wpc[w] = "park" /\ token[w]) => ENABLED WorkerPark(w)

\* C20: the executor is error-agnostic: an error value is delivered to the
\* task's waiter as the closure returned it; the step in which fun() returns
\* and the step in which the closure ends change the worker and its queue in
\* the same way whatever the value is (queue and batch untouched, the next
\* closure of the batch called next); and the worker keeps going, so the
\* closures enqueued later are executed too.
C20_ErrorAgnostic ==
  /\ [](\A t \in Tasks :
          /\ waitRes[t] = "err" => ret[t] = "err"
          /\ \A k \in DOMAIN pollRes[t] : pollRes[t][k] = "err" => ret[t] = "err"
          /\ (ret[t] = "err" /\ waitRes[t] \in Values) => waitRes[t] = "err")
  /\ [](\A w \in Workers : wpc[w] # "unborn" => GoesOn(w))
  /\ [][\A w \in Workers :
          /\ (wpc[w] = "fun" /\ wpc'[w] # "fun") =>
               /\ UNCHANGED <<queue, batch, cur, token>>
               /\ wpc'[w] = IF context[cur[w]] THEN "uninstall" ELSE "send"
          /\ (cur[w] # 0 /\ cur'[w] = 0) =>
               /\ UNCHANGED <<queue, batch, token>>
               /\ wpc'[w] = IF batch[w] = <<>> THEN "park" ELSE "call"]_vars

\* a closure returned an error value, which wait() delivered, and the
\* closure pushed after it was executed and delivered its success value
C20_Witness ==
  \E t, u \in Tasks :
    /\ InSeq(t, pushLog) /\ InSeq(u, pushLog)
    /\ Pos(t, pushLog) < Pos(u, pushLog)
    /\ ret[t] = "err" /\ waitRes[t] = "err"
    /\ Ended(u)
    /\ ret[u] = "ok" /\ waitRes[u] = "ok"

Obtained(t) ==
  Cardinality({k \in DOMAIN pollRes[t] : pollRes[t][k] \in Values})
    + (IF waitRes[t] \in Values THEN 1 ELSE 0)

\* C22: single consumption: a task's result is obtained by at most one
\* consumer call; once a poll() has returned Ready, every later poll() of the
\* task returns Pending and try_wait() returns the error, and the closure is
\* pushed, executed and sends at most once.
C22_SingleConsumption ==
  \A t \in Tasks :
    /\ Obtained(t) <= 1
    /\ \A k \in DOMAIN pollRes[t] :
         pollRes[t][k] \in Values =>
           /\ \A j \in DOMAIN pollRes[t] : j > k => pollRes[t][j] = "Pending"
           /\ waitRes[t] \in {"none", "RecvError"}
           /\ tpc[t] = "wait_recv" => chan[t] = <<>>
    /\ Count(t, pushLog) <= 1
    /\ Count(<<"begin", t>>, execLog) <= 1
    /\ sends[t] <= 1

\* the first poll returned Ready, the second Pending, and try_wait the error
C22_Witness ==
  \E t \in Tasks :
    /\ Len(pollRes[t]) = 2
    /\ pollRes[t][1] \in Values
    /\ pollRes[t][2] = "Pending"
    /\ waitRes[t] = "RecvError"

\* ---- C23 --------------------------------------------------------------------
\* the closure of t is inside fun()
InFun(t) == \E w \in Workers : cur[w] = t /\ wpc[w] = "fun"

C24_WorkerLive ==
  /\ \A t \in Tasks : InSeq(t, pushLog) ~> Ended(t)
  /\ \A w \in Workers : (wpc[w] = "park" /\ queue[w] # <<>>) ~> (wpc[w] # "park")

\* a closure was pushed after the worker had drained an empty queue and
\* before it parked; the caller has unparked: the token is waiting
C24_Witness ==
  \E w \in Workers :
    /\ wpc[w] = "park"
    /\ token[w]
    /\ queue[w] # <<>>
    /\ execLog = <<>>
    /\ \A t \in Tasks : tpc[t] # "unpark"

\* ---- C25 --------------------------------------------------------------------
\* the Task of t was detached with background() and then dropped
Forgotten(t) == op[t] = "background" /\ tpc[t] = "dropped"

C25_Detached ==
  \A t \in Tasks :
    op[t] = "background" =>
      /\ Count(t, pushLog) = 1
      /\ Count(<<"begin", t>>, execLog) <= 1
      /\ tpc[t] = "unpark" => ENABLED Unpark(t)
      /\ \A i \in DOMAIN pushLog :
           (i < Pos(t, pushLog) /\ Begun(t)) =>
             /\ Ended(pushLog[i])
             /\ Pos(<<"end", pushLog[i]>>, execLog) < Pos(<<"begin", t>>, execLog)
      /\ \A w \in Workers :
           (cur[w] = t /\ wpc[w] = "send") => ENABLED WorkerSend(w)

\* C25: fire and forget: background() has pushed the closure when it returns
\* and does not block; also when the Task is dropped right afterwards the
\* closure is executed, once and after the closures pushed before it; the
\* send to the dropped receiver does not stop the worker, which goes on to
\* execute the closures pushed later.
C25_FireAndForget ==
  /\ []C25_Detached
  /\ \A t \in Tasks : (op[t] = "background") ~> Ended(t)
  /\ \A t, u \in Tasks : (Forgotten(t) /\ InSeq(u, pushLog)) ~> Ended(u)

\* the result of a detached and dropped task could not be delivered, and
\* the closure pushed after it was executed and delivered to wait()
C25_Witness ==
  \E t, u \in Tasks :
    /\ Forgotten(t)
    /\ Ended(t)
    /\ sends[t] = 0
    /\ InSeq(u, pushLog)
    /\ Pos(t, pushLog) < Pos(u, pushLog)
    /\ waitRes[u] \in Values

\* ---- C26 --------------------------------------------------------------------
\* the first poll of t returned Pending
FirstPending(t) == pollRes[t] # <<>> /\ pollRes[t][1] = "Pending"

\* C26: no lost wake-up of the awaiting side: when the first poll() of a task
\* has returned Pending, the continuation passed to that poll is eventually
\* invoked (the closures terminating), wherever the worker's send, take and
\* wake fall between the steps of the poll, and also when the Task is
\* dropped meanwhile.
C26_AwaiterWoken ==
  \A t \in Tasks : FirstPending(t) ~> (woken[t] = <<1>>)

\* the continuation of a Pending first poll was invoked before the task was
\* polled again, and that of a task dropped after its Pending poll too
C26_Witness ==
  \E t, u \in Tasks :
    /\ t # u
    /\ pollRes[t] = <<"Pending">>
    /\ tpc[t] = "idle"
    /\ woken[t] = <<1>>
    /\ pollRes[u] = <<"Pending">>
    /\ tpc[u] = "dropped"
    /\ woken[u] = <<1>>

\* ---- C27 --------------------------------------------------------------------
\* the poll calls of t that returned Pending, and the last of them
PendingPolls(t) == {k \in DOMAIN pollRes[t] : pollRes[t][k] = "Pending"}
LatestPending(t) == CHOOSE k \in PendingPolls(t) : \A j \in PendingPolls(t) : j <= k

\* C27: the continuation the worker invokes when it delivers the result is
\* the one passed to the most recent poll() call that returned Pending, also
\* when an earlier poll of the task was given another one.
C27_LatestWoken ==
  [][\A t \in Tasks :
       (woken'[t] # woken[t] /\ PendingPolls(t) # {}) =>
         woken'[t][Len(woken'[t])] = LatestPending(t)]_vars

\* ---- C28 --------------------------------------------------------------------
\* C28: the worker never blocks on work that only it can run: no worker
\* waits in recv() for a closure that is in its own queue, and every closure
\* pushed is eventually executed, also after a task that was polled and
\* dropped before its closure completed left a result owning a Camera to be
\* destroyed on the worker.
C28_WorkerNeverStuck ==
  /\ [](\A w \in Workers : wpc[w] = "recv" => ~InSeq(CameraUnref, queue[w]))
  /\ \A t \in Tasks : InSeq(t, pushLog) ~> Ended(t)

\* ---- C29 --------------------------------------------------------------------
\* the closure of t was called and panicked: it began, did not return, and
\* no worker is executing it
Aborted(t) == Begun(t) /\ ~Ended(t) /\ \A w \in Workers : cur[w] # t

\* C29: an aborting closure does not stop the executor: when the closure of
\* a task has panicked, every closure pushed after it is still executed to
\* its return, and a wait() on its task returns.
C29_ExecutorSurvives ==
  \A t, u \in Tasks :
    (Aborted(t) /\ InSeq(u, pushLog) /\ Pos(t, pushLog) < Pos(u, pushLog))
      ~> (Ended(u) /\ tpc[u] # "wait_recv")

\* ---- C30 --------------------------------------------------------------------
\* C30: no use after release through lazy start: no closure that captured
\* the Camera's native handle begins to execute after the unref closure of
\* Camera::drop has been called, also when its task was made before the
\* Camera was dropped and started after.
C30_NoUseAfterRelease ==
  \A t \in CaptureTasks :
    (Begun(t) /\ Begun(UnrefTask)) =>
      Pos(<<"begin", t>>, execLog) < Pos(<<"begin", UnrefTask>>, execLog)

\* ---- C31 --------------------------------------------------------------------
\* C31: Camera::drop is synchronous and ordered: it has pushed the unref
\* closure once it is past start_task, and when it has returned the native
\* unref has been executed by the worker and has given the value wait() got,
\* after every closure pushed before it, by any thread, had returned.
C31_DropSynchronous ==
  /\ tpc[UnrefTask] \in {"unpark", "wait_recv", "dropped"} =>
       Count(UnrefTask, pushLog) = 1
  /\ tpc[UnrefTask] = "dropped" =>
       /\ ret[UnrefTask] # "none"
       /\ waitRes[UnrefTask] = ret[UnrefTask]
       /\ \A i \in DOMAIN pushLog :
            i < Pos(UnrefTask, pushLog) =>
              /\ Ended(pushLog[i])
              /\ Pos(<<"end", pushLog[i]>>, execLog) < Pos(<<"begin", UnrefTask>>, execLog)

\* Camera::drop has returned; a capture closure another thread had pushed
\* before was executed first
C31_Witness ==
  /\ tpc[UnrefTask] = "dropped"
  /\ \E t \in CaptureTasks :
       /\ InSeq(t, pushLog)
       /\ Pos(t, pushLog) < Pos(UnrefTask, pushLog)
       /\ ret[t] # "none"

\* ---- C32 --------------------------------------------------------------------
\* the Task of u was made and detached inside a closure, on the worker (the
\* callers of SpecNested detach nothing themselves)
Nested(u) == op[u] = "background"

C32_PushInsideClosure ==
  /\ \A w \in Workers :
       wpc[w] = "fun" => \A u \in Tasks : tpc[u] = "none" => ENABLED WorkerSpawn(w, u)
  /\ \A u \in Tasks :
       Nested(u) =>
         /\ Count(u, pushLog) = 1
         /\ Begun(u) =>
              \A i \in DOMAIN pushLog :
                i < Pos(u, pushLog) =>
                  /\ Ended(pushLog[i])
                  /\ Pos(<<"end", pushLog[i]>>, execLog) < Pos(<<"begin", u>>, execLog)

\* C32: a closure running on the worker can itself enqueue closures without
\* deadlock: the push is enabled whenever a closure is inside fun(); the new
\* closure begins after the closure that pushed it and after everything
\* pushed before it have returned; and it is eventually executed, the worker
\* not staying in park().
C32_NestedSpawn ==
  /\ []C32_PushInsideClosure
  /\ \A u \in Tasks : Nested(u) ~> Ended(u)

\* the only closure pushed by a caller enqueued a closure while it ran, and
\* the worker, finding its batch finished, came back and executed it
C32_Witness ==
  \E t, u \in Tasks :
    /\ pushLog = <<t, u>>
    /\ Nested(u)
    /\ ~Nested(t)
    /\ Ended(u)

\* ---- C33 --------------------------------------------------------------------
\* the TaskCancelHandler of t is alive: the Context the closure made with
\* from_ptr holds its Arc from set_cancel_handler until unset_cancel_handlers
\* or until the Context is dropped
CancelHandlerAlive(t) ==
  \E w \in Workers : cur[w] = t /\ wpc[w] \in {"fun", "uninstall"}

\* C33: handler lifetime covers registration: whenever the progress slot or
\* the cancel slot of the Context holds the pointer to a handler the bridge
\* installed for a task, that handler object has not been released, also
\* after a closure that aborted instead of returning.
C33_HandlerOutlivesSlot ==
  /\ slot_progress \in Tasks => progress_handler[slot_progress] = "context"
  /\ slot_cancel \in Tasks => CancelHandlerAlive(slot_cancel)

\* ---- C34 --------------------------------------------------------------------
\* worker w takes a step of the closure of a Context-bound task that has no
\* progress handler of its own
PlainBridgeStep(w) ==
  /\ cur[w] # 0
  /\ wpc'[w] # wpc[w]
  /\ context[cur[w]]
  /\ progress_handler[cur[w]] = "none"

\* C34: frame of the bridge: no step of the closure of a Context-bound task
\* without a progress handler changes the progress slot of the Context, so a
\* handler installed through Context::set_progress_handlers is still
\* registered when the task has completed.
C34_SlotFrame ==
  [][\A w \in Workers : PlainBridgeStep(w) => slot_progress' = slot_progress]_vars

\* ---- C35 --------------------------------------------------------------------
C35_NothingInstalled ==
  \A t \in Tasks :
    ~context[t] =>
      /\ slot_cancel # t
      /\ slot_progress # t
      /\ progress_handler[t] # "context"
      /\ received[t] = <<>>
      /\ feedback[t] = <<>>
      /\ \A w \in Workers :
           (cur[w] = t /\ wpc[w] = "fun") => \A v \in Values : ENABLED WorkerFunReturn(w, v)

\* C35: handlers take effect only with a bound Context: for a task without
\* a Context no cancel predicate and no progress handler is ever in a slot,
\* its progress handler receives no event, no cancel check reads its flag
\* and every return value stays open to its closure whatever the flag is,
\* and no step of its closure changes the slots of the Context.
C35_UnboundInert ==
  /\ []C35_NothingInstalled
  /\ [][\A w \in Workers :
          (cur[w] # 0 /\ ~context[cur[w]] /\ wpc'[w] # wpc[w]) => UNCHANGED svars]_vars

\* a task without a Context was given a progress handler and cancelled, and
\* its closure ran and returned a success value, while a Context-bound
\* task's handler received events
C35_Witness ==
  \E t, u \in Tasks :
    /\ ~context[t]
    /\ cancel[t]
    /\ progress_handler[t] = "released"
    /\ waitRes[t] = "ok"
    /\ context[u]
    /\ received[u] # <<>>

\* ---- C36 --------------------------------------------------------------------
\* cancel() is called on a in this step
Cancelled(a) == ncancels' # ncancels /\ cancel' = CancelStore(a)

\* the closure of b is inside fun()
Executing(b) == \E w \in Workers : cur[w] = b /\ wpc[w] = "fun"

\* C36: cancellation is isolated per task: a cancel() on task a changes
\* neither the value the cancel predicate gives during the execution of
\* another task b, nor the checks b has seen, nor a result, also with both
\* bound to the same Context and pending together; and a check in the
\* closure of b answers "cancel" only if b itself was cancelled.
C36_CancelIsolated ==
  /\ [](\A b \in Tasks :
          (\E i \in DOMAIN feedback[b] : feedback[b][i] = "cancel") => cancel[b])
  /\ [][\A a, b \in Tasks :
          (a # b /\ Cancelled(a)) =>
            /\ Executing(b) => HandleCancel' = HandleCancel
            /\ feedback' = feedback
            /\ ret' = ret
            /\ result' = result
            /\ cancel'[b] = cancel[b]]_vars

\* a and b are bound to the Context and pending together: b is inside fun()
\* and has had a check answered "ok", a waits in the queue or the batch and
\* was cancelled
C36_Witness ==
  \E a, b \in Tasks :
    /\ a # b
    /\ context[a] /\ context[b]
    /\ cancel[a] /\ ~cancel[b]
    /\ Executing(b)
    /\ feedback[b] = <<"ok">>
    /\ HandleCancel = "ok"
    /\ \E w \in Workers : InSeq(a, queue[w]) \/ InSeq(a, batch[w])

\* ---- C37 --------------------------------------------------------------------
\* start_task takes the closure out of the Task t in this step
ClosureTaken(t) == task[t] /\ ~task'[t] /\ op'[t] # "none"

\* C37: a started task is always enqueued: whenever a Task value exists the
\* initialiser of THREAD_MANAGER has completed, and every start_task that
\* takes the closure out of its Task pushes it at the back of the manager's
\* queue; no started task is missing from the pushes.
C37_StartedEnqueued ==
  /\ [](\A t \in Tasks :
          /\ Created(t) => (THREAD_MANAGER # 0 /\ once = "done")
          /\ (Created(t) /\ op[t] # "none") => InSeq(t, pushLog))
  /\ [][\A t \in Tasks :
          ClosureTaken(t) =>
            /\ THREAD_MANAGER # 0
            /\ queue'[THREAD_MANAGER] = Append(queue[THREAD_MANAGER], t)
            /\ pushLog' = Append(pushLog, t)]_vars

\* two Tasks exist: one was started, its closure was pushed and ran and its
\* result was received; the other still holds its closure
C37_Witness ==
  \E t, u \in Tasks :
    /\ t # u
    /\ Created(u) /\ tpc[u] = "idle" /\ task[u]
    /\ InSeq(t, pushLog)
    /\ Ended(t)
    /\ Obtained(t) = 1

====
